---- MODULE Spec2Model ----
(***************************************************************************)
(* Model of src/Code.py: the AnimalETL batch job.  fetch_all_animals pages *)
(* through GET /animals, transform_animal normalises friends and born_at,  *)
(* run_etl posts the records in batches through POST /home.  get_animals   *)
(* and post_animals are wrapped by retrying's @retry decorator.            *)
(***************************************************************************)
EXTENDS Integers, Sequences, FiniteSets, TLC

(***************************************************************************)
(* Bounds of the model.                                                    *)
(***************************************************************************)
\* the source serves non-empty pages only for page numbers up to MaxPages
MaxPages == 2
\* a served page holds between 1 and MaxItems records
MaxItems == 2
\* batch sizes 1..MaxBatchSize are tried besides the default BATCH_SIZE
MaxBatchSize == 2
\* a batch handed directly to post_animals holds 1..MaxDirectBatch records
MaxDirectBatch == 2

(***************************************************************************)
(* Program constants.                                                      *)
(***************************************************************************)
BATCH_SIZE == 100
MAX_RETRY_ATTEMPTS == 5
wait_exponential_multiplier == 1000
wait_exponential_max == 16000
\* elapsed_time > 5 (seconds), kept in milliseconds
PauseThresholdMs == 5000
\* time.sleep(5), kept in milliseconds
PauseSleepMs == 5000

(***************************************************************************)
(* JSON values.  Every value has the same four fields so that any two can  *)
(* be compared: t is the type tag, n the number of an "int", s the         *)
(* characters of a "str", l the elements (character sequences) of a        *)
(* "list".  "absent" stands for a key the mapping does not hold.           *)
(***************************************************************************)
Val(t, n, s, l) == [t |-> t, n |-> n, s |-> s, l |-> l]
Absent == Val("absent", 0, <<>>, <<>>)
Null == Val("null", 0, <<>>, <<>>)
IntV(n) == Val("int", n, <<>>, <<>>)
StrV(s) == Val("str", 0, s, <<>>)
ListV(l) == Val("list", 0, <<>>, l)

\* Python truthiness of a value held under a key
Truthy(v) ==
    CASE v.t = "null" -> FALSE
      [] v.t = "int" -> v.n # 0
      [] v.t = "str" -> v.s # <<>>
      [] v.t = "list" -> v.l # <<>>
      [] OTHER -> FALSE

(***************************************************************************)
(* str.split(','): the pieces between the commas, empty pieces kept.       *)
(***************************************************************************)
RECURSIVE SplitFrom(_, _, _, _)
SplitFrom(chars, k, cur, acc) ==
    IF k > Len(chars) THEN Append(acc, cur)
    ELSE IF chars[k] = "," THEN SplitFrom(chars, k + 1, <<>>, Append(acc, cur))
    ELSE SplitFrom(chars, k + 1, Append(cur, chars[k]), acc)

Split(chars) == SplitFrom(chars, 1, <<>>, <<>>)

(***************************************************************************)
(* datetime.fromtimestamp(ms / 1000, tz=timezone.utc).isoformat()          *)
(***************************************************************************)
DigitChar(d) == <<"0", "1", "2", "3", "4", "5", "6", "7", "8", "9">>[d + 1]

RECURSIVE Pad(_, _)
\* the decimal digits of n >= 0, zero-padded to width w
Pad(n, w) == IF w = 0 THEN <<>> ELSE Append(Pad(n \div 10, w - 1), DigitChar(n % 10))

\* proleptic Gregorian date <<year, month, day>> of a day count since 1970-01-01
CivilFromDays(days) ==
    LET z == days + 719468
        era == z \div 146097
        doe == z - era * 146097
        yoe == (doe - doe \div 1460 + doe \div 36524 - doe \div 146096) \div 365
        doy == doe - (365 * yoe + yoe \div 4 - yoe \div 100)
        mp == (5 * doy + 2) \div 153
        d == doy - (153 * mp + 2) \div 5 + 1
        m == IF mp < 10 THEN mp + 3 ELSE mp - 9
        y == yoe + era * 400 + (IF m <= 2 THEN 1 ELSE 0)
    IN  <<y, m, d>>

IsoFormat(ms) ==
    LET secs == ms \div 1000
        micros == (ms % 1000) * 1000
        days == secs \div 86400
        sod == secs % 86400
        ymd == CivilFromDays(days)
        frac == IF micros = 0 THEN <<>> ELSE <<".">> \o Pad(micros, 6)
    IN  Pad(ymd[1], 4) \o <<"-">> \o Pad(ymd[2], 2) \o <<"-">> \o Pad(ymd[3], 2)
        \o <<"T">> \o Pad(sod \div 3600, 2) \o <<":">> \o Pad((sod % 3600) \div 60, 2)
        \o <<":">> \o Pad(sod % 60, 2) \o frac \o <<"+", "0", "0", ":", "0", "0">>

(***************************************************************************)
(* transform_animal                                                        *)
(***************************************************************************)
\* lines 35-38; a truthy friends is a string here (the source form)
TransformFriends(v) ==
    IF v.t # "absent" /\ Truthy(v) THEN ListV(Split(v.s)) ELSE ListV(<<>>)

\* a handler that leaves the value it could not convert in place
TransformBornAtKeepsRaw(v) ==
    IF v.t = "int" THEN StrV(IsoFormat(v.n)) ELSE v

\* lines 40-45; dividing anything but a number raises, and the handler stores None;
\* so does a number too large for a date ("bigint")
TransformBornAt(v) ==
    IF v.t # "absent" /\ v.t # "null"
    THEN IF v.t = "int" THEN StrV(IsoFormat(v.n)) ELSE Null
    ELSE v

\* a transform that builds a new mapping from the fields it knows
transform_animal_rebuilt(animal) ==
    [id |-> animal.id,
     name |-> Absent,
     friends |-> TransformFriends(animal.friends),
     born_at |-> IF animal.born_at.t = "absent" THEN Null
                 ELSE TransformBornAt(animal.born_at)]

transform_animal(animal) ==
    [animal EXCEPT !.friends = TransformFriends(animal.friends),
                   !.born_at = TransformBornAt(animal.born_at)]

(***************************************************************************)
(* The two endpoints.  A response is a status and, for a status that       *)
(* raise_for_status lets through, a JSON body.  NoResponse stands for a    *)
(* request that fails without any response (connection error, timeout).    *)
(***************************************************************************)
NoResponse == 0
Statuses == {200, 300, 404, 503}
\* wall-clock milliseconds one HTTP round trip may take
Latencies == {0, 5000}

\* the record the source holds under an id
SourceAnimal(id) ==
    LET k == id % 3
    IN  [id |-> id,
         name |-> StrV(<<"n">>),
         friends |-> CASE k = 1 -> StrV(<<"a", ",", "b">>)
                       [] k = 2 -> Absent
                       [] OTHER -> StrV(<<>>),
         born_at |-> CASE k = 1 -> IntV(0)
                       [] k = 2 -> Null
                       [] OTHER -> StrV(<<"x">>)]

Body(present, hasItems, items) ==
    [present |-> present, hasItems |-> hasItems, items |-> items]
NoBody == Body(FALSE, FALSE, <<>>)

\* the bodies GET /animals?page=p may carry when `have` records were served before
GetBodies(p, have) ==
    {Body(TRUE, FALSE, <<>>), Body(TRUE, TRUE, <<>>)}
    \cup {Body(TRUE, TRUE, [k \in 1..n |-> SourceAnimal(have + k)]) :
            n \in IF p <= MaxPages THEN 1..MaxItems ELSE {}}

Response(status, body) == [status |-> status, body |-> body]

\* Response.raise_for_status: HTTPError for 4xx and 5xx
RaisesForStatus(status) == 400 <= status /\ status < 600

Responses(bodies) ==
    {Response(s, NoBody) : s \in {NoResponse} \cup {x \in Statuses : RaisesForStatus(x)}}
    \cup {Response(s, b) : s \in {x \in Statuses : ~RaisesForStatus(x)}, b \in bodies}

(***************************************************************************)
(* Exceptions and the outcome of one call of the wrapped function.         *)
(***************************************************************************)
Exc(cls, hasResponse, status) ==
    [cls |-> cls, hasResponse |-> hasResponse, status |-> status]
NoExc == Exc("none", FALSE, 0)

Outcome(kind, exc, body) == [kind |-> kind, exc |-> exc, body |-> body]
NoOutcome == Outcome("none", NoExc, NoBody)

IsRequestException(exc) == exc.cls \in {"HTTPError", "ConnectionError"}

\* lines 29-31 and 63-65: requests.get / requests.post, raise_for_status, json()
Attempt(resp) ==
    IF resp.status = NoResponse
    THEN Outcome("raise", Exc("ConnectionError", FALSE, 0), NoBody)
    ELSE IF RaisesForStatus(resp.status)
    THEN Outcome("raise", Exc("HTTPError", TRUE, resp.status), NoBody)
    ELSE Outcome("return", NoExc, resp.body)

\* a predicate that lets every HTTP error status through to a retry
retry_if_http_error(exception) ==
    /\ IsRequestException(exception)
    /\ exception.hasResponse
    /\ 400 <= exception.status /\ exception.status < 600

\* lines 14-17
retry_if_server_error(exception) ==
    /\ IsRequestException(exception)
    /\ exception.hasResponse
    /\ 500 <= exception.status /\ exception.status < 600

(***************************************************************************)
(* The @retry decorator of lines 25-26 and 49-50 (retrying.Retrying).      *)
(***************************************************************************)
\* a decorator that puts every outcome, a returned value too, to a retry
should_reject_any(att) == TRUE

\* should_reject: only an attempt that raised is put to retry_on_exception
should_reject(att) == att.kind = "raise" /\ retry_if_server_error(att.exc)

\* a stop test that never ends the retrying
stop_never(previous_attempt_number) == FALSE

\* a stop test that lets one attempt too many through
stop_one_late(previous_attempt_number) == previous_attempt_number > MAX_RETRY_ATTEMPTS

\* stop_after_attempt with stop_max_attempt_number = MAX_RETRY_ATTEMPTS
stop(previous_attempt_number) == previous_attempt_number >= MAX_RETRY_ATTEMPTS

\* a backoff whose first wait is the multiplier itself
exponential_sleep_from_base(previous_attempt_number) ==
    LET result == wait_exponential_multiplier * 2 ^ (previous_attempt_number - 1)
    IN  IF result > wait_exponential_max THEN wait_exponential_max ELSE result

\* exponential_sleep: multiplier * 2 ** previous_attempt_number, capped
exponential_sleep(previous_attempt_number) ==
    LET result == wait_exponential_multiplier * 2 ^ previous_attempt_number
    IN  IF result > wait_exponential_max THEN wait_exponential_max ELSE result

\* whether Retrying.call goes round its loop again after this attempt
RetriesAfter(att, previous_attempt_number) ==
    should_reject(att) /\ ~stop(previous_attempt_number)

(***************************************************************************)
(* State.                                                                  *)
(***************************************************************************)
VARIABLES
    entry,                \* the method the caller invoked: "run_etl", "post_animals"
                          \* or "transform_animal"
    batch_size,           \* self.batch_size
    max_retry_attempts,   \* self.max_retry_attempts
    pc,                   \* where the run stands
    page,                 \* fetch_all_animals: page
    animals,              \* fetch_all_animals: animals (run_etl: animals)
    elapsed,              \* milliseconds since start_time of the current page
    pause,                \* milliseconds fetch_all_animals slept after the last page
    attempt_number,       \* Retrying.call: attempt_number
    waits,                \* the sleeps of the current Retrying.call, in order
    http,                 \* the statuses answered to the current call's requests
    result,               \* what the last Retrying.call returned or raised
    transformed_animals,  \* run_etl: transformed_animals
    i,                    \* run_etl: i
    batch,                \* post_animals: batch
    served,               \* source side: the non-empty item lists served, by page
    requested,            \* source side: the page numbers asked for
    fetchEnd,             \* why fetch_all_animals left its loop, "" while it has not
    transformCalls,       \* number of transform_animal calls
    handed,               \* the batches post_animals was called with, in order
    postIssued,           \* destination side: batch numbers a POST arrived for
    lastFailedBatch,      \* number of the latest batch whose post_animals raised, or 0
    logged                \* the logging calls of the latest step, in order

vars == <<entry, batch_size, max_retry_attempts, pc, page, animals, elapsed, pause,
          attempt_number, waits, http, result, transformed_animals, i, batch,
          served, requested, fetchEnd, transformCalls, handed, postIssued, lastFailedBatch,
          logged>>

fetchVars == <<page, animals, elapsed, pause, served, requested, fetchEnd>>
postVars == <<transformed_animals, i, batch, handed, postIssued, lastFailedBatch>>
callVars == <<attempt_number, waits, http, result>>
configVars == <<entry, batch_size, max_retry_attempts>>

\* the values of max_retry_attempts a caller constructs AnimalETL with
RetryChoices == {2, MAX_RETRY_ATTEMPTS}
BatchSizes == (1..MaxBatchSize) \cup {BATCH_SIZE}
\* the (batch_size, max_retry_attempts) pairs tried: every batch size with the
\* default limit, and the default batch size with every limit
Configs ==
    {c \in BatchSizes \X RetryChoices : c[1] = BATCH_SIZE \/ c[2] = MAX_RETRY_ATTEMPTS}

\* records a caller may hand to post_animals directly
DirectValues ==
    [friends : {ListV(<<<<"a">>>>), StrV(<<"a">>), Absent},
     born_at : {Null, StrV(<<"t">>), IntV(0)}]
DirectBatches ==
    {[k \in 1..n |-> [id |-> k, name |-> StrV(<<"n">>),
                      friends |-> f[k].friends, born_at |-> f[k].born_at]] :
        n \in 1..MaxDirectBatch, f \in [1..MaxDirectBatch -> DirectValues]}

\* records a caller may hand to transform_animal directly (the source forms)
TransformFriendsInputs ==
    {Absent, Null, StrV(<<>>), StrV(<<"a">>), StrV(<<"a", ",", "b", ",", "c">>),
     StrV(<<"a", ",", ",", "b">>), StrV(<<",">>)}
TransformBornAtInputs ==
    {Absent, Null, IntV(0), IntV(1), IntV(-1), IntV(86400000), IntV(951782400),
     StrV(<<"x">>), Val("bigint", 0, <<>>, <<>>)}
TransformInputs ==
    [id : {7}, name : {StrV(<<"n">>), Absent},
     friends : TransformFriendsInputs, born_at : TransformBornAtInputs]

LogEntry(level, what, n) == <<level, what, n>>

\* __init__ and the call of run_etl (lines 125-126)
InitRun ==
    /\ entry = "run_etl"
    /\ \E c \in Configs : batch_size = c[1] /\ max_retry_attempts = c[2]
    /\ pc = "fetch_loop"
    /\ animals = <<>>
    /\ served = <<>>
    /\ batch = <<>>
    /\ handed = <<>>
    /\ logged = <<LogEntry("info", "fetching", 0)>>

\* __init__ and a call of post_animals(batch)
InitPost ==
    /\ entry = "post_animals"
    /\ batch_size = BATCH_SIZE
    /\ max_retry_attempts = MAX_RETRY_ATTEMPTS
    /\ pc = "post_attempt"
    /\ animals = <<>>
    /\ served = <<>>
    /\ batch \in DirectBatches
    /\ handed = <<batch>>
    /\ logged = <<>>

\* __init__ and a call of transform_animal(animal); served keeps the record as given
InitTransform ==
    /\ entry = "transform_animal"
    /\ batch_size = BATCH_SIZE
    /\ max_retry_attempts = MAX_RETRY_ATTEMPTS
    /\ pc = "transform_call"
    /\ \E animal \in TransformInputs : animals = <<animal>> /\ served = <<animals>>
    /\ batch = <<>>
    /\ handed = <<>>
    /\ logged = <<>>

Init ==
    /\ (InitRun \/ InitPost \/ InitTransform)
    /\ page = 1
    /\ elapsed = 0
    /\ pause = 0
    /\ attempt_number = 1
    /\ waits = <<>>
    /\ http = <<>>
    /\ result = NoOutcome
    /\ transformed_animals = <<>>
    /\ i = 0
    /\ requested = {}
    /\ fetchEnd = ""
    /\ transformCalls = 0
    /\ postIssued = {}
    /\ lastFailedBatch = 0

(***************************************************************************)
(* Retrying.call, one round of its loop: the attempt att has just ended.   *)
(***************************************************************************)
RetryingRound(att, again, returned) ==
    IF RetriesAfter(att, attempt_number)
    THEN /\ waits' = Append(waits, exponential_sleep(attempt_number))
         /\ attempt_number' = attempt_number + 1
         /\ result' = result
         /\ pc' = again
    ELSE /\ waits' = waits
         /\ attempt_number' = attempt_number
         /\ result' = att
         /\ pc' = returned

\* the time the round adds to the caller's clock: the request and the sleep
RoundTime(att, latency) ==
    latency + IF RetriesAfter(att, attempt_number)
              THEN exponential_sleep(attempt_number) ELSE 0

(***************************************************************************)
(* fetch_all_animals                                                       *)
(***************************************************************************)
\* lines 72-74: start_time = time.time(); self.get_animals(page)
FetchCall ==
    /\ pc = "fetch_loop"
    /\ pc' = "get_attempt"
    /\ attempt_number' = 1
    /\ waits' = <<>>
    /\ http' = <<>>
    /\ result' = NoOutcome
    /\ elapsed' = 0
    /\ pause' = 0
    /\ logged' = <<>>
    /\ UNCHANGED <<page, animals, served, requested, fetchEnd>>
    /\ UNCHANGED <<configVars, postVars, transformCalls>>

\* lines 25-31: one attempt of get_animals(page) and the decorator's round
GetAttempt ==
    /\ pc = "get_attempt"
    /\ \E resp \in Responses(GetBodies(page, Len(animals))), latency \in Latencies :
         LET att == Attempt(resp)
         IN  /\ http' = Append(http, resp.status)
             /\ requested' = requested \cup {page}
             /\ elapsed' = elapsed + RoundTime(att, latency)
             /\ RetryingRound(att, "get_attempt", "get_returned")
    /\ logged' = <<>>
    /\ UNCHANGED <<page, animals, pause, served, fetchEnd>>
    /\ UNCHANGED <<configVars, postVars, transformCalls>>

\* a test that also pauses at exactly five seconds
ServerPauseAtThreshold(elapsed_time) == elapsed_time >= PauseThresholdMs

\* line 89
ServerPause(elapsed_time) == elapsed_time > PauseThresholdMs

\* a loop body that never tests for the key
HasItemsKeyUnchecked(body) == TRUE

\* line 77: 'items' in result
HasItemsKey(body) == body.hasItems

\* the new page put in front of the earlier ones
ExtendInFront(list, items) == items \o list

\* line 84: animals.extend(result['items'])
Extend(list, items) == list \o items

\* a handler that names HTTPError only
FetchCatchesHttpOnly(exc) == exc.cls = "HTTPError"

\* line 94: except requests.exceptions.RequestException
FetchCatches(exc) == IsRequestException(exc)

\* a page counter that skips a page
NextPageSkipping(p) == p + 2

\* line 86: page += 1
NextPage(p) == p + 1

\* lines 75-96: what the loop body does with the result of get_animals
FetchHandle ==
    /\ pc = "get_returned"
    /\ IF result.kind = "raise"
       THEN \* lines 94-96; an exception the handler does not name leaves run_etl
            /\ logged' = IF FetchCatches(result.exc)
                         THEN <<LogEntry("error", "fetch_error", page)>> ELSE <<>>
            /\ pc' = IF FetchCatches(result.exc) THEN "fetch_done" ELSE "fetch_raised"
            /\ fetchEnd' = "error"
            /\ UNCHANGED <<page, animals, pause, served>>
       ELSE IF ~HasItemsKey(result.body)
       THEN \* lines 77-79
            /\ logged' = <<LogEntry("error", "no_items_key", page)>>
            /\ pc' = "fetch_done"
            /\ fetchEnd' = "no_items_key"
            /\ UNCHANGED <<page, animals, pause, served>>
       ELSE IF result.body.items = <<>>
       THEN \* lines 81-82
            /\ logged' = <<>>
            /\ pc' = "fetch_done"
            /\ fetchEnd' = "empty"
            /\ UNCHANGED <<page, animals, pause, served>>
       ELSE \* lines 84-92
            /\ animals' = Extend(animals, result.body.items)
            /\ served' = Append(served, result.body.items)
            /\ page' = NextPage(page)
            /\ pause' = IF ServerPause(elapsed) THEN PauseSleepMs ELSE 0
            /\ logged' = <<LogEntry("info", "fetched", page)>>
                         \o IF ServerPause(elapsed)
                            THEN <<LogEntry("warning", "server_pause", page)>>
                            ELSE <<>>
            /\ pc' = "fetch_loop"
            /\ UNCHANGED fetchEnd
    /\ UNCHANGED <<elapsed, requested, callVars>>
    /\ UNCHANGED <<configVars, postVars, transformCalls>>

(***************************************************************************)
(* run_etl                                                                 *)
(***************************************************************************)
\* a run that never takes the early exit
NoAnimalsIgnored(list) == FALSE

\* line 105: not animals
NoAnimals(list) == list = <<>>

\* a comprehension that leaves the first record as fetched
TransformAllButFirst(list) ==
    [k \in 1..Len(list) |-> IF k = 1 THEN list[k] ELSE transform_animal(list[k])]

\* line 111: [self.transform_animal(animal) for animal in animals]
TransformAll(list) == [k \in 1..Len(list) |-> transform_animal(list[k])]

\* lines 103-111: fetch_all_animals has returned animals; its frame is gone
AfterFetch ==
    /\ pc = "fetch_done"
    /\ IF NoAnimals(animals)
       THEN /\ logged' = <<LogEntry("error", "no_data", 0)>>
            /\ pc' = "done"
            /\ UNCHANGED <<animals, transformed_animals, transformCalls>>
       ELSE \* transform_animal changes the mapping it is given: animals holds them too
            /\ transformed_animals' = TransformAll(animals)
            /\ animals' = transformed_animals'
            /\ transformCalls' = transformCalls + Len(animals)
            /\ logged' = <<LogEntry("info", "transforming", 0),
                           LogEntry("info", "posting", 0)>>
            /\ pc' = "post_loop"
    /\ elapsed' = 0
    /\ pause' = 0
    /\ attempt_number' = 1
    /\ waits' = <<>>
    /\ http' = <<>>
    /\ result' = NoOutcome
    /\ UNCHANGED <<page, served, requested, fetchEnd>>
    /\ UNCHANGED <<configVars, i, batch, handed, postIssued, lastFailedBatch>>

Min(a, b) == IF a < b THEN a ELSE b

\* a slice that stops one record early
SliceShort(seq, start, size) == SubSeq(seq, start + 1, Min(start + size - 1, Len(seq)))

\* line 116: transformed_animals[start:start + size]
Slice(seq, start, size) == SubSeq(seq, start + 1, Min(start + size, Len(seq)))

\* lines 115-118: the next batch, or the end of the loop
PostLoop ==
    /\ pc = "post_loop"
    /\ IF i < Len(transformed_animals)
       THEN /\ batch' = Slice(transformed_animals, i, batch_size)
            /\ handed' = Append(handed, batch')
            /\ pc' = "post_attempt"
       ELSE /\ pc' = "done"
            /\ UNCHANGED <<batch, handed>>
    /\ attempt_number' = 1
    /\ waits' = <<>>
    /\ http' = <<>>
    /\ result' = NoOutcome
    /\ logged' = <<>>
    /\ UNCHANGED <<configVars, fetchVars, transformCalls>>
    /\ UNCHANGED <<transformed_animals, i, postIssued, lastFailedBatch>>

\* "batch N" of line 119
BatchNumber == i \div batch_size + 1

(***************************************************************************)
(* post_animals                                                            *)
(***************************************************************************)
\* a check that looks at friends only
ValidAnimalFriendsOnly(animal) == animal.friends.t = "list"

\* lines 55-61: the check of every record before sending
ValidAnimal(animal) ==
    /\ animal.friends.t = "list"
    /\ animal.born_at.t \in {"absent", "null", "str"}

ValidBatch(b) == \A k \in 1..Len(b) : ValidAnimal(b[k])

\* lines 55-61: a record fails the check; post_animals returns None
PostInvalid ==
    /\ pc = "post_attempt"
    /\ ~ValidBatch(batch)
    /\ logged' = <<LogEntry("error", "validation", BatchNumber)>>
    /\ RetryingRound(Outcome("return", NoExc, NoBody), "post_attempt", "post_returned")
    /\ UNCHANGED <<configVars, fetchVars, postVars, transformCalls, http>>

\* lines 49-65: one attempt of post_animals(batch) and the decorator's round
PostAttempt ==
    /\ pc = "post_attempt"
    /\ ValidBatch(batch)
    /\ \E resp \in Responses({Body(TRUE, FALSE, <<>>)}) :
         /\ http' = Append(http, resp.status)
         /\ postIssued' = postIssued \cup {BatchNumber}
         /\ RetryingRound(Attempt(resp), "post_attempt", "post_returned")
    /\ logged' = <<>>
    /\ UNCHANGED <<configVars, fetchVars, transformCalls>>
    /\ UNCHANGED <<transformed_animals, i, batch, handed, lastFailedBatch>>

\* a handler that names HTTPError only
PostCatchesHttpOnly(exc) == exc.cls = "HTTPError"

\* line 120: except requests.exceptions.RequestException
PostCatches(exc) == IsRequestException(exc)

\* line 115: range(0, len(transformed_animals), self.batch_size)
NextStart(start, step) == start + step

\* lines 117-121: run_etl logs the outcome and goes on with the next batch
PostHandle ==
    /\ pc = "post_returned"
    /\ entry = "run_etl"
    /\ IF result.kind = "raise"
       THEN \* an exception the handler does not name leaves run_etl
            /\ logged' = IF PostCatches(result.exc)
                         THEN <<LogEntry("error", "post_error", BatchNumber)>> ELSE <<>>
            /\ lastFailedBatch' = BatchNumber
            /\ pc' = IF PostCatches(result.exc) THEN "post_loop" ELSE "post_raised"
            /\ i' = IF PostCatches(result.exc) THEN NextStart(i, batch_size) ELSE i
       ELSE /\ logged' = <<LogEntry("info", "posted", BatchNumber)>>
            /\ pc' = "post_loop"
            /\ i' = NextStart(i, batch_size)
            /\ UNCHANGED lastFailedBatch
    /\ UNCHANGED <<configVars, fetchVars, transformCalls, callVars>>
    /\ UNCHANGED <<transformed_animals, batch, handed, postIssued>>

\* post_animals called directly hands its result to its caller
PostReturn ==
    /\ pc = "post_returned"
    /\ entry = "post_animals"
    /\ pc' = "done"
    /\ logged' = <<>>
    /\ UNCHANGED <<configVars, fetchVars, postVars, transformCalls, callVars>>

\* lines 33-47: transform_animal called directly; the mapping given is changed
TransformCall ==
    /\ pc = "transform_call"
    /\ transformed_animals' = <<transform_animal(animals[1])>>
    /\ animals' = transformed_animals'
    /\ transformCalls' = transformCalls + 1
    /\ logged' = IF animals[1].born_at.t \notin {"absent", "null", "int"}
                 THEN <<LogEntry("error", "born_at", animals[1].id)>> ELSE <<>>
    /\ pc' = "done"
    /\ UNCHANGED <<page, elapsed, pause, served, requested, fetchEnd>>
    /\ UNCHANGED <<configVars, callVars, i, batch, handed, postIssued, lastFailedBatch>>

Next ==
    \/ TransformCall
    \/ FetchCall
    \/ GetAttempt
    \/ FetchHandle
    \/ AfterFetch
    \/ PostLoop
    \/ PostInvalid
    \/ PostAttempt
    \/ PostHandle
    \/ PostReturn

Spec == Init /\ [][Next]_vars

\* the job is one sequential thread: while a step is possible it is taken
FairSpec == Spec /\ WF_vars(Next)

(***************************************************************************)
(* Properties.                                                             *)
(***************************************************************************)
Is5xx(status) == 500 <= status /\ status < 600
AllServerErrors(h) == h # <<>> /\ \A k \in 1..Len(h) : Is5xx(h[k])
Calling == pc \in {"get_attempt", "post_attempt"}

RECURSIVE Concat(_)
Concat(seqs) == IF seqs = <<>> THEN <<>> ELSE Head(seqs) \o Concat(Tail(seqs))

Ids(seq) == [k \in 1..Len(seq) |-> seq[k].id]

\* C1: a request (GET of a page or POST of a batch) answered 5xx on every
\* attempt is attempted exactly 5 times; the 5th failure is raised to the
\* caller, which reports it, and no 6th attempt is made.
C1_FiveAttemptsOnServerErrors ==
    /\ Len(http) <= 5
    /\ AllServerErrors(http) =>
         /\ Calling => Len(http) < 5 /\ attempt_number = Len(http) + 1
         /\ ~Calling =>
              /\ Len(http) = 5
              /\ attempt_number = 5
              /\ result.kind = "raise"
              /\ result.exc.hasResponse /\ result.exc.status = http[5]
         /\ pc = "fetch_done" =>
              fetchEnd = "error" /\ logged = <<LogEntry("error", "fetch_error", page)>>
         /\ pc = "post_loop" =>
              /\ lastFailedBatch = i \div batch_size
              /\ logged = <<LogEntry("error", "post_error", lastFailedBatch)>>

C1_Witness ==
    /\ entry = "run_etl"
    /\ pc = "post_loop"
    /\ Len(http) = 5
    /\ AllServerErrors(http)
    /\ lastFailedBatch >= 1

NonServerFailure(out) ==
    /\ out.kind = "raise"
    /\ ~out.exc.hasResponse \/ ~Is5xx(out.exc.status)

\* C3 as stated: a request with an attempt that fails with a non-5xx status
\* or without a response is attempted exactly once in total, with no wait.
C3_NonServerFailureAttemptedOnce ==
    NonServerFailure(result) => Len(http) = 1 /\ waits = <<>>

\* C3 amended: an attempt that fails with a non-5xx status or without a
\* response is the last attempt of its request: no retry and no backoff wait
\* follows it and the failure goes to the caller at once, so every attempt
\* that was retried got a 5xx; when it is the first attempt the request is
\* attempted exactly once with no wait.
C3_NonServerFailureNotRetried ==
    /\ \A k \in 1..(Len(http) - 1) : Is5xx(http[k])
    /\ (http # <<>> /\ ~Is5xx(http[Len(http)]) /\ http[Len(http)] >= 400) => ~Calling
    /\ (http # <<>> /\ http[Len(http)] = NoResponse) => ~Calling
    /\ NonServerFailure(result) =>
         /\ ~Calling
         /\ Len(waits) = Len(http) - 1
         /\ attempt_number = Len(http)
         /\ result.exc.hasResponse => result.exc.status = http[Len(http)]
         /\ ~result.exc.hasResponse => http[Len(http)] = NoResponse
         /\ attempt_number = 1 => Len(http) = 1 /\ waits = <<>>
         /\ pc = "fetch_done" =>
              fetchEnd = "error" /\ logged = <<LogEntry("error", "fetch_error", page)>>
         /\ pc = "post_loop" =>
              logged = <<LogEntry("error", "post_error", lastFailedBatch)>>

C3_Witness ==
    /\ pc = "get_returned"
    /\ NonServerFailure(result)
    /\ http = <<404>>
    /\ waits = <<>>

\* C4: when pages 1..k-1 are non-empty and page k has an empty items list,
\* fetch_all_animals asks for no page beyond k and returns the items of pages
\* 1..k-1 concatenated in page order, as the source sent them.
C4_EmptyPageEndsFetch ==
    /\ (/\ pc = "fetch_done"
        /\ result.kind = "return"
        /\ result.body.hasItems
        /\ result.body.items = <<>>) =>
         /\ Len(served) = page - 1
         /\ requested = 1..page
         /\ animals = Concat(served)
         /\ \A k \in 1..Len(animals) : animals[k] = SourceAnimal(k)
    /\ fetchEnd = "empty" => requested = 1..(Len(served) + 1)

C4_Witness ==
    /\ pc = "fetch_done"
    /\ fetchEnd = "empty"
    /\ Len(served) = 2
    /\ Len(animals) >= 3

\* C5: when the response for page k has no items key, fetch_all_animals
\* stops: it asks for no further page, raises nothing and returns the records
\* of pages 1..k-1 only (none when k = 1).
C5_MissingItemsKeyEndsFetch ==
    /\ (/\ pc = "fetch_done"
        /\ result.kind = "return"
        /\ ~result.body.hasItems) =>
         /\ fetchEnd = "no_items_key"
         /\ logged = <<LogEntry("error", "no_items_key", page)>>
         /\ Len(served) = page - 1
         /\ requested = 1..page
         /\ animals = Concat(served)
    /\ fetchEnd = "no_items_key" =>
         /\ requested = 1..(Len(served) + 1)
         /\ pc # "fetch_raised"

C5_Witness ==
    /\ pc = "fetch_done"
    /\ fetchEnd = "no_items_key"
    /\ ~result.body.hasItems
    /\ Len(served) >= 1
    /\ animals # <<>>

\* C6: when the request for page k fails for good (a failure that is not
\* retried, or 5xx on all 5 attempts), fetch_all_animals ends the paging
\* without raising and returns the records of pages 1..k-1; for k > 1 the run
\* goes on to transform and post those records.
C6_FailedPageKeepsPartialResult ==
    /\ pc # "fetch_raised"
    /\ (pc = "fetch_done" /\ result.kind = "raise") =>
         /\ fetchEnd = "error"
         /\ Len(served) = page - 1
         /\ requested = 1..page
         /\ animals = Concat(served)
    /\ (fetchEnd = "error" /\ served # <<>> /\ pc # "fetch_done") =>
         /\ pc \in {"post_loop", "post_attempt", "post_returned", "done"}
         /\ transformCalls = Len(Concat(served))
         /\ transformed_animals =
              [k \in 1..Len(Concat(served)) |-> transform_animal(Concat(served)[k])]
    /\ (fetchEnd = "error" /\ served # <<>> /\ pc = "done") =>
         /\ Concat(handed) = transformed_animals
         /\ postIssued = 1..Len(handed)

C6_Witness ==
    /\ pc = "done"
    /\ fetchEnd = "error"
    /\ Len(served) >= 1
    /\ handed # <<>>
    /\ postIssued # {}

\* a batch the claim calls invalid: some record's friends is not a list, or
\* its born_at is neither null nor a string
HasInvalidRecord(b) ==
    \E k \in 1..Len(b) :
        \/ b[k].friends.t # "list"
        \/ b[k].born_at.t \notin {"absent", "null", "str"}

\* C7: for a batch with an invalid record post_animals issues no POST at all
\* (nothing of the batch reaches the destination), raises nothing to its
\* caller, and neither retries nor waits.
C7_InvalidBatchNeverSent ==
    (pc \in {"post_attempt", "post_returned"} \/ (pc = "done" /\ entry = "post_animals")) =>
        (HasInvalidRecord(batch) =>
            /\ http = <<>>
            /\ BatchNumber \notin postIssued
            /\ waits = <<>>
            /\ attempt_number = 1
            /\ pc # "post_attempt" => result = Outcome("return", NoExc, NoBody))

C7_Witness ==
    /\ pc = "done"
    /\ entry = "post_animals"
    /\ Len(batch) = 2
    /\ batch[1].friends.t = "list" /\ batch[1].born_at.t = "str"
    /\ batch[2].friends.t = "list" /\ batch[2].born_at.t = "int"
    /\ postIssued = {}
    /\ result.kind = "return"

\* the number of batches of n records in batches of b
BatchCount(n, b) == (n + b - 1) \div b

\* C8: run_etl calls post_animals exactly once for every batch number
\* 1..ceil(n / batch_size), in increasing order, whatever became of the
\* earlier batches; a failed batch neither stops the later ones nor the run.
C8_EveryBatchAttempted ==
    entry = "run_etl" =>
        /\ pc # "post_raised"
        /\ pc \in {"post_attempt", "post_returned"} =>
             /\ i < Len(transformed_animals)
             /\ i % batch_size = 0
             /\ Len(handed) = i \div batch_size + 1
        /\ pc = "post_loop" =>
             /\ i % batch_size = 0
             /\ Len(handed) = i \div batch_size
             /\ lastFailedBatch <= Len(handed)
        /\ (pc = "done" /\ transformed_animals # <<>>) =>
             Len(handed) = BatchCount(Len(transformed_animals), batch_size)

C8_Witness ==
    /\ entry = "run_etl"
    /\ pc = "done"
    /\ lastFailedBatch = 1
    /\ Len(handed) >= 3
    /\ logged = <<>>

\* C9: the batches handed to post_animals are the contiguous slices [0,b),
\* [b,2b), ... of the fetched sequence: each but the last holds b records, the
\* last between 1 and b, every record is in exactly one batch, and the batches
\* in posting order carry the fetched ids in the fetched order.
C9_BatchesAreContiguousSlices ==
    entry = "run_etl" =>
        LET fetched == Concat(served)
            n == Len(fetched)
            b == batch_size
        IN  /\ \A k \in 1..Len(handed) :
                 /\ Len(handed[k]) = IF k * b <= n THEN b ELSE n - (k - 1) * b
                 /\ Len(handed[k]) >= 1 /\ Len(handed[k]) <= b
                 /\ \A j \in 1..Len(handed[k]) :
                      /\ (k - 1) * b + j <= n
                      /\ handed[k][j].id = fetched[(k - 1) * b + j].id
                      /\ handed[k][j] = transformed_animals[(k - 1) * b + j]
            /\ (pc = "done" /\ fetched # <<>>) => Ids(Concat(handed)) = Ids(fetched)

C9_Witness ==
    /\ entry = "run_etl"
    /\ pc = "done"
    /\ batch_size = 2
    /\ Len(handed) = 2
    /\ Len(handed[1]) = 2
    /\ Len(handed[2]) = 1

\* C10: when fetch_all_animals returns no record (first page empty, without
\* items key, or failed), run_etl ends without any POST and without calling
\* transform_animal or post_animals.
C10_NothingFetchedNothingPosted ==
    (entry = "run_etl" /\ fetchEnd # "" /\ animals = <<>>) =>
        /\ pc \in {"fetch_done", "done"}
        /\ transformCalls = 0
        /\ transformed_animals = <<>>
        /\ handed = <<>>
        /\ postIssued = {}
        /\ pc = "done" => logged = <<LogEntry("error", "no_data", 0)>>

C10_Witness ==
    /\ entry = "run_etl"
    /\ pc = "done"
    /\ fetchEnd = "error"
    /\ animals = <<>>
    /\ requested = {1}
    /\ postIssued = {}

\* a list value whose elements are strings cut at the commas
IsStringList(v) ==
    /\ v.t = "list"
    /\ \A k \in 1..Len(v.l) : \A j \in 1..Len(v.l[k]) : v.l[k][j] # ","

\* the records transform_animal was given, in order
Given == Concat(served)

\* C11: for every source record (friends absent, null, empty or a
\* comma-separated string; born_at absent, null, an integer or a value that
\* cannot be converted) transform_animal leaves friends a sequence of strings
\* (empty when the source was absent or empty) and born_at a string or null,
\* never a raw number; a failed conversion stores null and raises nothing.
C11_TransformNormalisesFields ==
    /\ entry = "transform_animal" => pc \in {"transform_call", "done"}
    /\ (entry = "transform_animal" /\ pc = "done") => Len(transformed_animals) = 1
    /\ \A k \in 1..Len(transformed_animals) :
         LET in == Given[k]
             out == transformed_animals[k]
         IN  /\ IsStringList(out.friends)
             /\ (in.friends.t \in {"absent", "null"} \/ in.friends = StrV(<<>>)) =>
                  out.friends = ListV(<<>>)
             /\ in.friends = StrV(<<"a", ",", "b", ",", "c">>) =>
                  out.friends = ListV(<<<<"a">>, <<"b">>, <<"c">>>>)
             /\ out.born_at.t \in {"str", "null", "absent"}
             /\ in.born_at.t = "int" => out.born_at.t = "str"
             /\ in.born_at = IntV(0) =>
                  out.born_at.s = <<"1", "9", "7", "0", "-", "0", "1", "-", "0", "1",
                                    "T", "0", "0", ":", "0", "0", ":", "0", "0",
                                    "+", "0", "0", ":", "0", "0">>
             /\ in.born_at.t \in {"str", "bigint"} => out.born_at = Null

C11_Witness ==
    /\ entry = "transform_animal"
    /\ pc = "done"
    /\ Given[1].friends = StrV(<<"a", ",", "b", ",", "c">>)
    /\ Given[1].born_at.t = "bigint"
    /\ transformed_animals[1].born_at = Null
    /\ logged = <<LogEntry("error", "born_at", 7)>>

\* C16: transform_animal changes the friends and born_at fields only: every
\* other field, id included, keeps its value, and no field but friends is
\* added or removed.
C16_TransformKeepsOtherFields ==
    \A k \in 1..Len(transformed_animals) :
        LET in == Given[k]
            out == transformed_animals[k]
        IN  /\ out.id = in.id
            /\ out.name = in.name
            /\ (in.born_at.t = "absent") <=> (out.born_at.t = "absent")
            /\ DOMAIN out = DOMAIN in

C16_Witness ==
    /\ entry = "transform_animal"
    /\ pc = "done"
    /\ Given[1].name = StrV(<<"n">>)
    /\ Given[1].friends = Absent
    /\ Given[1].born_at = Absent
    /\ transformed_animals[1].friends = ListV(<<>>)
    /\ transformed_animals[1].born_at = Absent
    /\ transformed_animals[1].name = StrV(<<"n">>)

Last(seq) == seq[Len(seq)]
IsSuccess(status) == 200 <= status /\ status < 300
InFetch == pc \in {"fetch_loop", "get_attempt", "get_returned"}

\* C12: for a batch that passes validation, post_animals treats every
\* response whose status is outside 200-299 as a failure: such a response is
\* never handed back as a successful post.
C12_NonSuccessStatusIsFailure ==
    (pc = "post_returned" /\ http # <<>> /\ ~IsSuccess(Last(http))) =>
        result.kind = "raise"

\* C13: a request that always gets 5xx is attempted exactly as many times as
\* the max_retry_attempts value AnimalETL was constructed with.
C13_AttemptsFollowConstructorArgument ==
    (AllServerErrors(http) /\ ~Calling) => Len(http) = max_retry_attempts

\* C14: fetch_all_animals asks for the pages 1, 2, 3, ... in order and skips
\* none: the first GET is for page 1, page p+1 is asked for only after page p
\* came back with a non-empty items list, and every retry of a page carries
\* that page's number.
C14_PagesRequestedInOrder ==
    entry = "run_etl" =>
        /\ page = Len(served) + 1
        /\ requested \subseteq 1..page
        /\ \A p \in 1..Len(served) : p \in requested /\ served[p] # <<>>
        /\ page \in requested <=>
             (fetchEnd # "" \/ (http # <<>> /\ pc \in {"get_attempt", "get_returned"}))
        /\ pc = "fetch_loop" => requested = 1..(page - 1)

C14_Witness ==
    /\ entry = "run_etl"
    /\ pc = "get_attempt"
    /\ page = 2
    /\ http = <<503, 503>>
    /\ requested = {1, 2}

\* C15: a run goes through fetching, transforming, posting and done in that
\* order and never back: no POST before the last GET has ended, no GET after
\* the first POST, and every fetched record is transformed exactly once,
\* after the last GET and before the first POST.
C15_PhasesInOrder ==
    entry = "run_etl" =>
        /\ (InFetch \/ pc = "fetch_done") =>
             /\ transformCalls = 0
             /\ transformed_animals = <<>>
             /\ handed = <<>>
             /\ postIssued = {}
             /\ animals = Given
        /\ InFetch <=> fetchEnd = ""
        /\ (handed # <<>> \/ postIssued # {} \/ transformCalls > 0) =>
             /\ pc \in {"post_loop", "post_attempt", "post_returned", "done"}
             /\ fetchEnd # ""
             /\ transformCalls = Len(Given)
             /\ Len(transformed_animals) = Len(Given)
             /\ \A k \in 1..Len(Given) :
                  transformed_animals[k] = transform_animal(Given[k])
        /\ (pc = "done" /\ Given # <<>>) => transformCalls = Len(Given)

C15_Witness ==
    /\ entry = "run_etl"
    /\ pc = "post_returned"
    /\ Len(served) = 2
    /\ transformCalls = Len(Given)
    /\ Len(handed) = 2
    /\ postIssued = {1, 2}

\* C17: after a page whose measured time, from before get_animals to after
\* its items are added, is over 5 seconds the fetcher sleeps 5 seconds before
\* the next page; at 5 seconds or less it does not sleep, and it never sleeps
\* after a page that ends the loop.
C17_PauseAfterSlowPage ==
    entry = "run_etl" =>
        /\ pause \in {0, 5000}
        /\ (pc = "fetch_loop" /\ served # <<>>) =>
             /\ elapsed > 5000 => pause = 5000
             /\ elapsed <= 5000 => pause = 0
             /\ pause = 5000 <=> logged = <<LogEntry("info", "fetched", page - 1),
                                            LogEntry("warning", "server_pause", page - 1)>>
        /\ pc # "fetch_loop" => pause = 0

C17_Witness ==
    /\ entry = "run_etl"
    /\ pc = "fetch_loop"
    /\ http = <<503, 503, 200>>
    /\ elapsed = 6000
    /\ pause = 5000

\* C19: retrying stops at the first attempt that does not fail with 5xx: when
\* attempts 1..k-1 get 5xx and attempt k (k <= 5) a success response, exactly
\* k attempts are made, the response goes back to the caller and the caller
\* sees no failure (the page's items are taken, or the batch counts as posted).
C19_SuccessEndsRetrying ==
    (http # <<>> /\ IsSuccess(Last(http))) =>
        /\ ~Calling
        /\ Len(http) <= 5
        /\ attempt_number = Len(http)
        /\ \A k \in 1..(Len(http) - 1) : Is5xx(http[k])
        /\ result.kind = "return" /\ result.body.present
        /\ pc = "fetch_done" => fetchEnd \in {"empty", "no_items_key"}
        /\ pc = "fetch_loop" =>
             /\ served # <<>>
             /\ Last(served) = result.body.items
             /\ animals = Given
        /\ pc = "post_loop" =>
             /\ logged = <<LogEntry("info", "posted", i \div batch_size)>>
             /\ lastFailedBatch # i \div batch_size

C19_Witness ==
    /\ entry = "run_etl"
    /\ pc = "post_loop"
    /\ http = <<503, 503, 200>>
    /\ logged = <<LogEntry("info", "posted", 2)>>
    /\ lastFailedBatch = 1

\* C20: run_etl logs "Successfully posted batch N" only when a POST carrying
\* batch N was issued and answered with a success status; a batch dropped by
\* the validation or whose POST failed is never logged as posted.
C20_PostedLogMeansAccepted ==
    \A k \in 1..Len(logged) :
        (logged[k][1] = "info" /\ logged[k][2] = "posted") =>
            /\ logged[k][3] \in postIssued
            /\ http # <<>>
            /\ IsSuccess(Last(http))

\* what C18 bounds: no request is attempted more than 5 times, post_animals
\* is called at most ceil(n / batch_size) times for the n fetched records, and
\* POST requests arrive only from those calls, at most 5 from each
AttemptsBounded ==
    /\ Len(http) <= 5
    /\ attempt_number <= 5
    /\ entry = "run_etl" =>
         /\ Len(handed) <= BatchCount(Len(Given), batch_size)
         /\ postIssued \subseteq 1..Len(handed)
         /\ pc \in {"post_attempt", "post_returned"} =>
              /\ Len(handed) >= 1
              /\ (http # <<>>) = (Len(handed) \in postIssued)

\* C18: run_etl always terminates when the source serves finitely many
\* non-empty pages: each page request ends after at most 5 attempts, and the
\* posting phase issues at most 5 * ceil(n / batch_size) POST attempts for n
\* fetched records before the run is done.
C18_RunTerminates == []AttemptsBounded /\ <>(pc = "done")

\* a run of three records in batches of one whose last batch is given up on
\* after its fifth attempt
C18_Witness ==
    /\ entry = "run_etl"
    /\ pc = "done"
    /\ batch_size = 1
    /\ Len(Given) = 3
    /\ Len(handed) = 3
    /\ lastFailedBatch = 3
    /\ postIssued = {1, 2, 3}

====
